---- MODULE Spec2Model ----
(***************************************************************************)
(* ScalableBackendStack: the descriptor tree built by the stack's          *)
(* constructor (src/unnamed/part_000), the entry point that feeds it the   *)
(* environment (src/app.ts), and the behaviour the declared records stand  *)
(* for once synthesized: step scaling, security-group admission, subnet    *)
(* and availability-zone placement, target health checks.                  *)
(***************************************************************************)
EXTENDS Integers, Sequences, FiniteSets, TLC

VARIABLES
    account,          \* props.env.account (process.env.CDK_DEFAULT_ACCOUNT)
    region,           \* props.env.region  (process.env.CDK_DEFAULT_REGION)
    regionAzs,        \* number of availability zones the target region offers
    pc,               \* index of the next constructor statement
    phase,            \* "construct" | "synthesized" | "deployed"
    tree,             \* constructs declared so far, in declaration order
    dangling,         \* ids used by a statement before they were declared
    ingress,          \* security-group inbound rules
    grants,           \* IAM grants: role, resource, action
    userDataCommands, \* commands of the launch template's user data
    outputs,          \* CfnOutputs
    cpu,              \* current CPU utilization datapoint of the scaling group
    capacity,         \* current capacity of the scaling group
    fired,            \* scaling policies fired on the current datapoint
    conn,             \* last connection attempt and whether it was admitted
    placement,        \* component -> subnets holding a member
    failedAz,         \* the availability zone that was lost (0: none)
    instances,        \* backend instance -> lifecycle / health state
    request           \* a client request on its way to a backend instance

vars == << account, region, regionAzs, pc, phase, tree, dangling, ingress, grants,
           userDataCommands, outputs, cpu, capacity, fired, conn, placement,
           failedAz, instances, request >>

constructVars == << tree, dangling, ingress, grants, userDataCommands, outputs >>
runtimeVars == << cpu, capacity, fired, conn, placement, failedAz, instances, request >>

----------------------------------------------------------------------------
(* Bounds of the model *)

\* the target region offers between 2 and MaxRegionAzs availability zones
MaxRegionAzs == 4

\* environment inputs: either may be undefined
Accounts == {"undefined", "123456789012"}
Regions == {"undefined", "us-east-1"}

Min(a, b) == IF a < b THEN a ELSE b
Max(a, b) == IF a > b THEN a ELSE b

----------------------------------------------------------------------------
(* The constructor's statements, in source order *)

vpc ==
    [op |-> "new", id |-> "vpc", refs |-> {},
     props |-> [maxAzs |-> 3, natGateways |-> 2,
                subnetConfiguration |->
                  << [name |-> "Public", subnetType |-> "PUBLIC", cidrMask |-> 24],
                     [name |-> "Private-Backend", subnetType |-> "PRIVATE_WITH_EGRESS", cidrMask |-> 24],
                     [name |-> "Private-Clients", subnetType |-> "PRIVATE_WITH_EGRESS", cidrMask |-> 24] >>]]

dataBucket ==
    [op |-> "new", id |-> "dataBucket", refs |-> {},
     props |-> [bucketNamePrefix |-> "scalable-backend-data", versioned |-> TRUE,
                encryption |-> "S3_MANAGED", blockPublicAccess |-> "BLOCK_ALL",
                removalPolicy |-> "DESTROY"]]

dbSubnetGroup ==
    [op |-> "new", id |-> "dbSubnetGroup", refs |-> {"vpc"},
     props |-> [vpcSubnets |-> [subnetType |-> "PRIVATE_WITH_EGRESS"]]]

dbSecret ==
    [op |-> "new", id |-> "dbSecret", refs |-> {},
     props |-> [username |-> "admin", generateStringKey |-> "password"]]

database ==
    [op |-> "new", id |-> "database", refs |-> {"vpc", "dbSubnetGroup", "dbSecret"},
     props |-> [engine |-> "postgres", subnetGroup |-> "dbSubnetGroup",
                credentials |-> "dbSecret", multiAz |-> FALSE,
                allocatedStorage |-> 20, storageEncrypted |-> TRUE,
                deletionProtection |-> FALSE]]

backendSecurityGroup ==
    [op |-> "new", id |-> "backendSecurityGroup", refs |-> {"vpc"},
     props |-> [allowAllOutbound |-> TRUE]]

albSecurityGroup ==
    [op |-> "new", id |-> "albSecurityGroup", refs |-> {"vpc"},
     props |-> [allowAllOutbound |-> TRUE]]

albIngressHttp ==
    [op |-> "addIngressRule", refs |-> {"albSecurityGroup"},
     rule |-> [group |-> "albSecurityGroup", peer |-> "anyIpv4", port |-> 80]]

albIngressHttps ==
    [op |-> "addIngressRule", refs |-> {"albSecurityGroup"},
     rule |-> [group |-> "albSecurityGroup", peer |-> "anyIpv4", port |-> 443]]

\* variant: the backend port opened to any IPv4 source instead of the load
\* balancer's group
backendIngressAnyIpv4 ==
    [op |-> "addIngressRule", refs |-> {"backendSecurityGroup", "albSecurityGroup"},
     rule |-> [group |-> "backendSecurityGroup", peer |-> "anyIpv4", port |-> 8080]]

backendIngress ==
    [op |-> "addIngressRule", refs |-> {"backendSecurityGroup", "albSecurityGroup"},
     rule |-> [group |-> "backendSecurityGroup", peer |-> "albSecurityGroup", port |-> 8080]]

\* database.connections.allowFrom: an inbound rule on the database's own group
databaseAllowFrom ==
    [op |-> "addIngressRule", refs |-> {"database", "backendSecurityGroup"},
     rule |-> [group |-> "database", peer |-> "backendSecurityGroup", port |-> 5432]]

backendRole ==
    [op |-> "new", id |-> "backendRole", refs |-> {},
     props |-> [assumedBy |-> "ec2.amazonaws.com",
                managedPolicies |-> {"CloudWatchAgentServerPolicy",
                                     "AmazonSSMManagedInstanceCore"}]]

grantBackendBucket ==
    [op |-> "grant", refs |-> {"dataBucket", "backendRole"},
     role |-> "backendRole", resource |-> "dataBucket", actions |-> {"read", "write"}]

grantBackendSecret ==
    [op |-> "grant", refs |-> {"dbSecret", "backendRole"},
     role |-> "backendRole", resource |-> "dbSecret", actions |-> {"read"}]

userData ==
    [op |-> "new", id |-> "userData", refs |-> {}, props |-> [platform |-> "linux"]]

userDataAddCommands ==
    [op |-> "addCommands", refs |-> {"userData"},
     commands |->
       << [cmd |-> "yum update -y"],
          [cmd |-> "yum install -y docker"],
          [cmd |-> "systemctl start docker"],
          [cmd |-> "systemctl enable docker"],
          [cmd |-> "usermod -a -G docker ec2-user"],
          [cmd |-> "wget amazon-cloudwatch-agent.rpm"],
          [cmd |-> "rpm -U ./amazon-cloudwatch-agent.rpm"],
          [cmd |-> "docker run", hostPort |-> 8080, containerPort |-> 8080,
           name |-> "backend-app", image |-> "nginx:alpine"] >>]

launchTemplate ==
    [op |-> "new", id |-> "launchTemplate",
     refs |-> {"backendSecurityGroup", "backendRole", "userData"},
     props |-> [securityGroup |-> "backendSecurityGroup", role |-> "backendRole",
                userData |-> "userData"]]

autoScalingGroup ==
    [op |-> "new", id |-> "autoScalingGroup", refs |-> {"vpc", "launchTemplate"},
     props |-> [launchTemplate |-> "launchTemplate",
                minCapacity |-> 2, maxCapacity |-> 10, desiredCapacity |-> 3,
                vpcSubnets |-> [subnetType |-> "PRIVATE_WITH_EGRESS"],
                healthCheck |-> "elb", graceMinutes |-> 5]]

alb ==
    [op |-> "new", id |-> "alb", refs |-> {"vpc", "albSecurityGroup"},
     props |-> [internetFacing |-> TRUE, securityGroup |-> "albSecurityGroup",
                vpcSubnets |-> [subnetType |-> "PUBLIC"]]]

targetGroup ==
    [op |-> "new", id |-> "targetGroup", refs |-> {"vpc", "autoScalingGroup"},
     props |-> [port |-> 8080, protocol |-> "HTTP", targets |-> {"autoScalingGroup"},
                healthCheck |-> [enabled |-> TRUE, healthyHttpCodes |-> 200,
                                 path |-> "/health", protocol |-> "HTTP"]]]

listener ==
    [op |-> "new", id |-> "listener", refs |-> {"alb", "targetGroup"},
     props |-> [loadBalancer |-> "alb", port |-> 80, protocol |-> "HTTP",
                defaultTargetGroups |-> {"targetGroup"}]]

api ==
    [op |-> "new", id |-> "api", refs |-> {},
     props |-> [restApiName |-> "Scalable Backend API",
                allowOrigins |-> "ALL_ORIGINS", allowMethods |-> "ALL_METHODS"]]

integration ==
    [op |-> "new", id |-> "integration", refs |-> {"alb"},
     props |-> [scheme |-> "http", host |-> "alb", httpMethod |-> "ANY", proxy |-> TRUE]]

apiProxy ==
    [op |-> "new", id |-> "apiProxy", refs |-> {"api", "integration"},
     props |-> [defaultIntegration |-> "integration", anyMethod |-> TRUE]]

cluster ==
    [op |-> "new", id |-> "cluster", refs |-> {"vpc"},
     props |-> [clusterName |-> "download-agents-cluster"]]

fargateTaskRole ==
    [op |-> "new", id |-> "fargateTaskRole", refs |-> {},
     props |-> [assumedBy |-> "ecs-tasks.amazonaws.com", managedPolicies |-> {}]]

grantFargateBucket ==
    [op |-> "grant", refs |-> {"dataBucket", "fargateTaskRole"},
     role |-> "fargateTaskRole", resource |-> "dataBucket", actions |-> {"read", "write"}]

taskDefinition ==
    [op |-> "new", id |-> "taskDefinition", refs |-> {"fargateTaskRole"},
     props |-> [memoryLimitMiB |-> 512, cpu |-> 256, taskRole |-> "fargateTaskRole"]]

container ==
    [op |-> "new", id |-> "container", refs |-> {"taskDefinition"},
     props |-> [image |-> "alpine:latest", streamPrefix |-> "download-agent"]]

fargateService ==
    [op |-> "new", id |-> "fargateService", refs |-> {"cluster", "taskDefinition"},
     props |-> [cluster |-> "cluster", taskDefinition |-> "taskDefinition",
                desiredCount |-> 3,
                vpcSubnets |-> [subnetType |-> "PRIVATE_WITH_EGRESS"]]]

dashboard ==
    [op |-> "new", id |-> "dashboard", refs |-> {},
     props |-> [dashboardName |-> "ScalableBackendMonitoring"]]

cpuAlarm ==
    [op |-> "new", id |-> "cpuAlarm", refs |-> {"autoScalingGroup"},
     props |-> [metric |-> "CPUUtilization", threshold |-> 80, evaluationPeriods |-> 2,
                treatMissingData |-> "NOT_BREACHING"]]

\* a scaling step's absent bound is the empty set
scaleUpPolicy ==
    [op |-> "new", id |-> "scaleUpPolicy", refs |-> {"autoScalingGroup"},
     props |-> [metric |-> "CPUUtilization", adjustmentType |-> "CHANGE_IN_CAPACITY",
                scalingSteps |-> << [lower |-> {}, upper |-> {50}, change |-> 1],
                                    [lower |-> {80}, upper |-> {}, change |-> 2] >>]]

scaleDownPolicy ==
    [op |-> "new", id |-> "scaleDownPolicy", refs |-> {"autoScalingGroup"},
     props |-> [metric |-> "CPUUtilization", adjustmentType |-> "CHANGE_IN_CAPACITY",
                scalingSteps |-> << [lower |-> {}, upper |-> {30}, change |-> -1] >>]]

outputLoadBalancerDNS ==
    [op |-> "output", refs |-> {"alb"}, name |-> "LoadBalancerDNS",
     value |-> [resource |-> "alb", attr |-> "loadBalancerDnsName"],
     description |-> "DNS name of the Application Load Balancer"]

outputAPIGatewayURL ==
    [op |-> "output", refs |-> {"api"}, name |-> "APIGatewayURL",
     value |-> [resource |-> "api", attr |-> "url"],
     description |-> "URL of the API Gateway"]

outputS3BucketName ==
    [op |-> "output", refs |-> {"dataBucket"}, name |-> "S3BucketName",
     value |-> [resource |-> "dataBucket", attr |-> "bucketName"],
     description |-> "Name of the S3 data bucket"]

\* variant: the endpoint output valued from the secret instead of the instance
outputDatabaseEndpointFromSecret ==
    [op |-> "output", refs |-> {"dbSecret"}, name |-> "DatabaseEndpoint",
     value |-> [resource |-> "dbSecret", attr |-> "secretName"],
     description |-> "RDS database endpoint"]

outputDatabaseEndpoint ==
    [op |-> "output", refs |-> {"database"}, name |-> "DatabaseEndpoint",
     value |-> [resource |-> "database", attr |-> "instanceEndpoint.hostname"],
     description |-> "RDS database endpoint"]

\* variant: the scaling group constructed before the launch template it uses
ConstructorAsgFirst ==
    << vpc, dataBucket, dbSubnetGroup, dbSecret, database,
       backendSecurityGroup, albSecurityGroup,
       albIngressHttp, albIngressHttps, backendIngress, databaseAllowFrom,
       backendRole, grantBackendBucket, grantBackendSecret,
       userData, userDataAddCommands, autoScalingGroup, launchTemplate,
       alb, targetGroup, listener, api, integration, apiProxy,
       cluster, fargateTaskRole, grantFargateBucket, taskDefinition, container,
       fargateService, dashboard, cpuAlarm, scaleUpPolicy, scaleDownPolicy,
       outputLoadBalancerDNS, outputAPIGatewayURL, outputS3BucketName,
       outputDatabaseEndpoint >>

Constructor ==
    << vpc, dataBucket, dbSubnetGroup, dbSecret, database,
       backendSecurityGroup, albSecurityGroup,
       albIngressHttp, albIngressHttps, backendIngress, databaseAllowFrom,
       backendRole, grantBackendBucket, grantBackendSecret,
       userData, userDataAddCommands, launchTemplate, autoScalingGroup,
       alb, targetGroup, listener, api, integration, apiProxy,
       cluster, fargateTaskRole, grantFargateBucket, taskDefinition, container,
       fargateService, dashboard, cpuAlarm, scaleUpPolicy, scaleDownPolicy,
       outputLoadBalancerDNS, outputAPIGatewayURL, outputS3BucketName,
       outputDatabaseEndpoint >>

----------------------------------------------------------------------------
(* Reading the descriptor tree *)

Declared == { tree[i].id : i \in 1..Len(tree) }

IsDeclared(id) == \E i \in 1..Len(tree) : tree[i].id = id

IndexOf(id) == CHOOSE i \in 1..Len(tree) : tree[i].id = id

Props(id) == tree[IndexOf(id)].props

Refs(id) == tree[IndexOf(id)].refs

\* the bucket's physical name, from the stack's environment
BucketName == << Props("dataBucket").bucketNamePrefix, account, region >>

----------------------------------------------------------------------------
(* Network layout the Vpc record stands for *)

\* maxAzs caps the zones used; an environment-agnostic stack (account or
\* region undefined) is laid out over two zones
AvailabilityZones ==
    IF account = "undefined" \/ region = "undefined"
    THEN 2
    ELSE Min(Props("vpc").maxAzs, regionAzs)

\* one subnet per subnetConfiguration entry and availability zone
Subnets ==
    LET cfg == Props("vpc").subnetConfiguration
    IN { [name |-> cfg[i].name, subnetType |-> cfg[i].subnetType, az |-> z] :
            i \in 1..Len(cfg), z \in 1..AvailabilityZones }

\* vpcSubnets: { subnetType } selects every subnet of that type
SelectSubnets(selection) ==
    { s \in Subnets : s.subnetType = selection.subnetType }

\* NAT gateways sit in the public subnets of the first natGateways zones
NatGatewayAzs == 1..Min(Props("vpc").natGateways, AvailabilityZones)

\* the default route of a private subnet: the NAT gateway of its zone, else
\* one of the declared gateways in turn
NatRoute(s) == ((s.az - 1) % Cardinality(NatGatewayAzs)) + 1

----------------------------------------------------------------------------
(* The constructor, one statement at a time *)

Stmt == Constructor[pc]

Constructing == phase = "construct" /\ pc \in 1..Len(Constructor)

\* new <Construct>(this, id, props)
NewConstruct ==
    /\ Constructing
    /\ Stmt.op = "new"
    /\ tree' = Append(tree, [id |-> Stmt.id, refs |-> Stmt.refs, props |-> Stmt.props])
    /\ dangling' = dangling \cup (Stmt.refs \ Declared)
    /\ pc' = pc + 1
    /\ UNCHANGED << account, region, regionAzs, phase, ingress, grants,
                    userDataCommands, outputs >>
    /\ UNCHANGED runtimeVars

\* securityGroup.addIngressRule(peer, port) / connections.allowFrom(peer, port)
AddIngressRule ==
    /\ Constructing
    /\ Stmt.op = "addIngressRule"
    /\ ingress' = ingress \cup {Stmt.rule}
    /\ dangling' = dangling \cup (Stmt.refs \ Declared)
    /\ pc' = pc + 1
    /\ UNCHANGED << account, region, regionAzs, phase, tree, grants,
                    userDataCommands, outputs >>
    /\ UNCHANGED runtimeVars

\* bucket.grantReadWrite(role) / secret.grantRead(role)
Grant ==
    /\ Constructing
    /\ Stmt.op = "grant"
    /\ grants' = grants \cup
         { [role |-> Stmt.role, resource |-> Stmt.resource, action |-> a] :
              a \in Stmt.actions }
    /\ dangling' = dangling \cup (Stmt.refs \ Declared)
    /\ pc' = pc + 1
    /\ UNCHANGED << account, region, regionAzs, phase, tree, ingress,
                    userDataCommands, outputs >>
    /\ UNCHANGED runtimeVars

\* userData.addCommands(...)
AddCommands ==
    /\ Constructing
    /\ Stmt.op = "addCommands"
    /\ userDataCommands' = userDataCommands \o Stmt.commands
    /\ dangling' = dangling \cup (Stmt.refs \ Declared)
    /\ pc' = pc + 1
    /\ UNCHANGED << account, region, regionAzs, phase, tree, ingress, grants, outputs >>
    /\ UNCHANGED runtimeVars

\* new cdk.CfnOutput(this, name, { value, description })
CfnOutput ==
    /\ Constructing
    /\ Stmt.op = "output"
    /\ outputs' = outputs \cup
         { [name |-> Stmt.name, value |-> Stmt.value, description |-> Stmt.description] }
    /\ dangling' = dangling \cup (Stmt.refs \ Declared)
    /\ pc' = pc + 1
    /\ UNCHANGED << account, region, regionAzs, phase, tree, ingress, grants,
                    userDataCommands >>
    /\ UNCHANGED runtimeVars

\* app.synth(): the constructor has returned
Synth ==
    /\ phase = "construct"
    /\ pc = Len(Constructor) + 1
    /\ phase' = "synthesized"
    /\ UNCHANGED << account, region, regionAzs, pc >>
    /\ UNCHANGED constructVars
    /\ UNCHANGED runtimeVars

Components == {"alb", "backend", "database", "fargate"}

NoConn == [src |-> "none", dst |-> "none", port |-> 0, accepted |-> FALSE]

\* cdk deploy: the scaling group starts at its desired capacity
Deploy ==
    /\ phase = "synthesized"
    /\ phase' = "deployed"
    /\ capacity' = Props("autoScalingGroup").desiredCapacity
    /\ instances' = [i \in 1..Props("autoScalingGroup").desiredCapacity |-> "pending"]
    /\ UNCHANGED << account, region, regionAzs, pc >>
    /\ UNCHANGED constructVars
    /\ UNCHANGED << cpu, fired, conn, placement, failedAz, request >>

Init ==
    /\ account \in Accounts
    /\ region \in Regions
    /\ regionAzs \in 2..MaxRegionAzs
    /\ pc = 1
    /\ phase = "construct"
    /\ tree = << >>
    /\ dangling = {}
    /\ ingress = {}
    /\ grants = {}
    /\ userDataCommands = << >>
    /\ outputs = {}
    /\ cpu = 0
    /\ capacity = 0
    /\ fired = {}
    /\ conn = NoConn
    /\ placement = [c \in Components |-> {}]
    /\ failedAz = 0
    /\ instances = << >>
    /\ request = "none"

----------------------------------------------------------------------------
(* Step scaling: scaleOnMetric on the group's CPU utilization *)

\* CPU utilization is a percentage
MaxCpu == 100

\* a step covers a datapoint that lies within its bounds; an absent bound
\* does not restrict (the lower alarm breaches at <= upper, the upper alarm
\* at >= lower)
InStep(step, m) ==
    /\ \A l \in step.lower : m >= l
    /\ \A u \in step.upper : m <= u

\* the capacity change a policy's steps ask for at datapoint m (0: none)
StepChange(steps, m) ==
    LET hit == { i \in 1..Len(steps) : InStep(steps[i], m) }
    IN IF hit = {} THEN 0 ELSE steps[CHOOSE i \in hit : TRUE].change

\* the group keeps its capacity within minCapacity..maxCapacity
ClampCapacity(n) ==
    Max(Props("autoScalingGroup").minCapacity,
        Min(Props("autoScalingGroup").maxCapacity, n))

\* a new datapoint of the CPU utilization metric
MetricDatapoint ==
    /\ phase = "deployed"
    /\ \E m \in 0..MaxCpu : cpu' = m
    /\ fired' = {}
    /\ UNCHANGED << account, region, regionAzs, pc, phase >>
    /\ UNCHANGED constructVars
    /\ UNCHANGED << capacity, conn, placement, failedAz, instances, request >>

\* a policy whose steps cover the datapoint adjusts the capacity
\* (adjustmentType CHANGE_IN_CAPACITY)
FirePolicy(policy) ==
    /\ phase = "deployed"
    /\ \A f \in fired : f.policy # policy
    /\ StepChange(Props(policy).scalingSteps, cpu) # 0
    /\ capacity' = ClampCapacity(capacity + StepChange(Props(policy).scalingSteps, cpu))
    /\ fired' = fired \cup
         { [policy |-> policy, change |-> StepChange(Props(policy).scalingSteps, cpu)] }
    /\ UNCHANGED << account, region, regionAzs, pc, phase >>
    /\ UNCHANGED constructVars
    /\ UNCHANGED << cpu, conn, placement, failedAz, instances, request >>

ScaleUp == FirePolicy("scaleUpPolicy")

ScaleDown == FirePolicy("scaleDownPolicy")

----------------------------------------------------------------------------
(* Security-group admission of a connection *)

Sources == {"internet"} \cup Components

Ports == {22, 80, 443, 5432, 8080}

\* the security group a component's members belong to; the database and the
\* Fargate service are given none and get one of their own
SecurityGroupOf(c) ==
    CASE c = "alb" -> Props("alb").securityGroup
      [] c = "backend" -> Props(Props("autoScalingGroup").launchTemplate).securityGroup
      [] c = "database" -> "database"
      [] c = "fargate" -> "fargateService"
      [] OTHER -> "none"

\* an inbound rule of dst's group names the port and a peer matching src
Admits(src, dst, port) ==
    \E r \in ingress :
        /\ r.group = SecurityGroupOf(dst)
        /\ r.port = port
        /\ \/ r.peer = "anyIpv4"
           \/ src \in Components /\ r.peer = SecurityGroupOf(src)

Connect ==
    /\ phase = "deployed"
    /\ \E src \in Sources, dst \in Components, port \in Ports :
          /\ src # dst
          /\ conn' = [src |-> src, dst |-> dst, port |-> port,
                      accepted |-> Admits(src, dst, port)]
    /\ UNCHANGED << account, region, regionAzs, pc, phase >>
    /\ UNCHANGED constructVars
    /\ UNCHANGED << cpu, capacity, fired, placement, failedAz, instances, request >>

----------------------------------------------------------------------------
(* Placement of each component's members in subnets and zones *)

\* the subnets a component's record selects
SelectedSubnets(c) ==
    CASE c = "alb" -> SelectSubnets(Props("alb").vpcSubnets)
      [] c = "backend" -> SelectSubnets(Props("autoScalingGroup").vpcSubnets)
      [] c = "database" -> SelectSubnets(Props(Props("database").subnetGroup).vpcSubnets)
      [] c = "fargate" -> SelectSubnets(Props("fargateService").vpcSubnets)

\* the members a component's record asks for
MemberCount(c) ==
    CASE c = "alb" -> AvailabilityZones
      [] c = "backend" -> Props("autoScalingGroup").desiredCapacity
      [] c = "database" -> IF Props("database").multiAz THEN 2 ELSE 1
      [] c = "fargate" -> Props("fargateService").desiredCount

ZonesOf(S) == { s.az : s \in S }

\* zones a component's members are spread over
ZonesWanted(c) == Min(MemberCount(c), AvailabilityZones)

\* a member starts in one of the selected subnets, in a zone that holds none yet
Place(c) ==
    /\ phase = "deployed"
    /\ failedAz = 0
    /\ Cardinality(placement[c]) < ZonesWanted(c)
    /\ \E s \in SelectedSubnets(c) :
          /\ s.az \notin ZonesOf(placement[c])
          /\ placement' = [placement EXCEPT ![c] = @ \cup {s}]
    /\ UNCHANGED << account, region, regionAzs, pc, phase >>
    /\ UNCHANGED constructVars
    /\ UNCHANGED << cpu, capacity, fired, conn, failedAz, instances, request >>

PlaceMember == \E c \in Components : Place(c)

AllPlaced == \A c \in Components : Cardinality(placement[c]) = ZonesWanted(c)

\* one availability zone is lost
FailAz ==
    /\ phase = "deployed"
    /\ AllPlaced
    /\ failedAz = 0
    /\ \E z \in 1..AvailabilityZones : failedAz' = z
    /\ UNCHANGED << account, region, regionAzs, pc, phase >>
    /\ UNCHANGED constructVars
    /\ UNCHANGED << cpu, capacity, fired, conn, placement, instances, request >>

----------------------------------------------------------------------------
(* Target health and request delivery *)

InstanceIds == 1..autoScalingGroup.props.desiredCapacity

\* what the stock image does: nginx:alpine listens on container port 80 and
\* answers 200 for "/" and 404 for a path it has no file for
ImageListens(image) == IF image = "nginx:alpine" THEN {80} ELSE {}

ImageStatus(image, path) ==
    IF image = "nginx:alpine" THEN (IF path = "/" THEN 200 ELSE 404) ELSE 0

\* the docker run commands of the user data that publish host port p
Published(p) ==
    { i \in 1..Len(userDataCommands) :
        /\ "hostPort" \in DOMAIN userDataCommands[i]
        /\ userDataCommands[i].hostPort = p }

\* the status a GET of path on the instance's port p is answered with
\* (0: no answer)
Answer(p, path) ==
    IF ~Admits("alb", "backend", p) \/ Published(p) = {}
    THEN 0
    ELSE LET c == userDataCommands[CHOOSE i \in Published(p) : TRUE]
         IN IF c.containerPort \in ImageListens(c.image)
            THEN ImageStatus(c.image, path)
            ELSE 0

\* the target group's health check of one instance
Healthy ==
    Answer(Props("targetGroup").port, Props("targetGroup").healthCheck.path)
        = Props("targetGroup").healthCheck.healthyHttpCodes

\* the instance runs the launch template's user data
Boot ==
    /\ phase = "deployed"
    /\ \E i \in InstanceIds :
          /\ instances[i] = "pending"
          /\ instances' = [instances EXCEPT ![i] = "booted"]
    /\ UNCHANGED << account, region, regionAzs, pc, phase >>
    /\ UNCHANGED constructVars
    /\ UNCHANGED << cpu, capacity, fired, conn, placement, failedAz, request >>

HealthCheck ==
    /\ phase = "deployed"
    /\ \E i \in InstanceIds :
          /\ instances[i] = "booted"
          /\ instances' = [instances EXCEPT ![i] = IF Healthy THEN "healthy" ELSE "unhealthy"]
    /\ UNCHANGED << account, region, regionAzs, pc, phase >>
    /\ UNCHANGED constructVars
    /\ UNCHANGED << cpu, capacity, fired, conn, placement, failedAz, request >>

\* healthCheck: elb -- the group replaces an instance the load balancer
\* reports unhealthy
Replace ==
    /\ phase = "deployed"
    /\ \E i \in InstanceIds :
          /\ instances[i] = "unhealthy"
          /\ instances' = [instances EXCEPT ![i] = "pending"]
    /\ UNCHANGED << account, region, regionAzs, pc, phase >>
    /\ UNCHANGED constructVars
    /\ UNCHANGED << cpu, capacity, fired, conn, placement, failedAz, request >>

\* a client request enters through the API gateway or the load balancer
Arrive ==
    /\ phase = "deployed"
    /\ request \in {"none", "delivered", "failed"}
    /\ request' \in {"api", "alb"}
    /\ UNCHANGED << account, region, regionAzs, pc, phase >>
    /\ UNCHANGED constructVars
    /\ UNCHANGED << cpu, capacity, fired, conn, placement, failedAz, instances >>

\* the proxy resource hands the request to its HTTP integration
ApiProxy ==
    /\ phase = "deployed"
    /\ request = "api"
    /\ Props(Props("apiProxy").defaultIntegration).host = "alb"
    /\ request' = "alb"
    /\ UNCHANGED << account, region, regionAzs, pc, phase >>
    /\ UNCHANGED constructVars
    /\ UNCHANGED << cpu, capacity, fired, conn, placement, failedAz, instances >>

\* the listener forwards to a healthy target of its default target group
Forward ==
    /\ phase = "deployed"
    /\ request = "alb"
    /\ request' = IF \E i \in InstanceIds : instances[i] = "healthy"
                  THEN "delivered" ELSE "failed"
    /\ UNCHANGED << account, region, regionAzs, pc, phase >>
    /\ UNCHANGED constructVars
    /\ UNCHANGED << cpu, capacity, fired, conn, placement, failedAz, instances >>

----------------------------------------------------------------------------
(* Specifications *)

Build == NewConstruct \/ AddIngressRule \/ Grant \/ AddCommands \/ CfnOutput \/ Synth \/ Deploy

Next == Build

\* the constructor, synthesis and deployment
Spec == Init /\ [][Next]_vars

NextScale == Build \/ MetricDatapoint \/ ScaleUp \/ ScaleDown

SpecScale == Init /\ [][NextScale]_vars

\* datapoints keep arriving and a policy whose alarm is breached is run
FairSpecScale ==
    /\ Init /\ [][NextScale]_vars
    /\ WF_vars(Build) /\ WF_vars(MetricDatapoint) /\ WF_vars(ScaleUp) /\ WF_vars(ScaleDown)

NextConn == Build \/ Connect

SpecConn == Init /\ [][NextConn]_vars

NextPlace == Build \/ PlaceMember \/ FailAz

SpecPlace == Init /\ [][NextPlace]_vars

NextHealth == Build \/ Boot \/ HealthCheck \/ Replace \/ Arrive \/ ApiProxy \/ Forward

\* instances boot, the load balancer keeps probing and forwarding, the group
\* keeps replacing
FairSpecHealth ==
    /\ Init /\ [][NextHealth]_vars
    /\ WF_vars(Build) /\ WF_vars(Boot) /\ WF_vars(HealthCheck) /\ WF_vars(Replace)
    /\ WF_vars(ApiProxy) /\ WF_vars(Forward)

----------------------------------------------------------------------------
(* Properties *)

Built == phase # "construct"

ListenerPorts(lb) ==
    { tree[i].props.port :
        i \in { k \in 1..Len(tree) :
                  /\ "loadBalancer" \in DOMAIN tree[k].props
                  /\ tree[k].props.loadBalancer = lb } }

IngressPorts(group, peer) ==
    { r.port : r \in { x \in ingress : x.group = group /\ x.peer = peer } }

PublishedHostPorts ==
    { userDataCommands[i].hostPort :
        i \in { k \in 1..Len(userDataCommands) : "hostPort" \in DOMAIN userDataCommands[k] } }

\* C1: once the stack is built, the ports of the routing records and of the
\* traffic boundary records agree along the request path: every listener port
\* of the load balancer is open to any IPv4 source on its security group,
\* every port open on that group has a listener, and the target group's port
\* is the one port the backend group admits from the load balancer's group
\* and the host port the user data's container publishes.
C1_PortsMatch ==
    Built =>
        /\ ListenerPorts("alb") \subseteq IngressPorts(SecurityGroupOf("alb"), "anyIpv4")
        /\ IngressPorts(SecurityGroupOf("alb"), "anyIpv4") \subseteq ListenerPorts("alb")
        /\ IngressPorts(SecurityGroupOf("backend"), SecurityGroupOf("alb"))
              = {Props("targetGroup").port}
        /\ PublishedHostPorts = {Props("targetGroup").port}

OutputNames == {"LoadBalancerDNS", "APIGatewayURL", "S3BucketName", "DatabaseEndpoint"}

OutputSource(name) ==
    CASE name = "LoadBalancerDNS" -> "alb"
      [] name = "APIGatewayURL" -> "api"
      [] name = "S3BucketName" -> "dataBucket"
      [] name = "DatabaseEndpoint" -> "database"
      [] OTHER -> "none"

\* C2: whatever the account and region inputs are (undefined included), every
\* output has a non-empty description and a value taken from a construct
\* declared in the stack, and the built stack has exactly the four outputs
\* LoadBalancerDNS, APIGatewayURL, S3BucketName and DatabaseEndpoint, valued
\* from the load balancer, the REST API, the data bucket and the database.
C2_Outputs ==
    /\ \A o \in outputs :
          /\ o.description # ""
          /\ IsDeclared(o.value.resource)
          /\ o.value.resource = OutputSource(o.name)
    /\ Built =>
          /\ { o.name : o \in outputs } = OutputNames
          /\ Cardinality(outputs) = 4

C2_Witness ==
    /\ phase = "synthesized"
    /\ account = "undefined"
    /\ region = "undefined"
    /\ Cardinality(outputs) = 4

\* C3: no reference dangles: every id a statement uses was declared by an
\* earlier statement of the same stack, ids are unique (one VPC), and in the
\* built stack each record holds the references the design names.
C3_References ==
    /\ dangling = {}
    /\ \A i \in 1..Len(tree) : \A r \in tree[i].refs :
          \E j \in 1..(i - 1) : tree[j].id = r
    /\ \A i, j \in 1..Len(tree) : tree[i].id = tree[j].id => i = j
    /\ Built =>
          /\ \A id \in {"autoScalingGroup", "dbSubnetGroup", "backendSecurityGroup",
                        "albSecurityGroup", "alb", "cluster"} : "vpc" \in Refs(id)
          /\ {"backendSecurityGroup", "backendRole", "userData"}
                \subseteq Refs("launchTemplate")
          /\ "autoScalingGroup" \in Refs("targetGroup")
          /\ "targetGroup" \in Refs("listener")
          /\ "alb" \in Refs("integration")
          /\ {"cluster", "taskDefinition"} \subseteq Refs("fargateService")
          /\ \A id \in {"cpuAlarm", "scaleUpPolicy", "scaleDownPolicy"} :
                "autoScalingGroup" \in Refs(id)

C3_Witness ==
    /\ phase = "synthesized"
    /\ "vpc" \in Refs("autoScalingGroup")
    /\ "launchTemplate" \in Refs("autoScalingGroup")
    /\ Cardinality(Declared) = Len(tree)

\* the datapoints at which the scale-down policy acts count as low utilization
LowCpu(m) == StepChange(Props("scaleDownPolicy").scalingSteps, m) < 0

\* C4: a firing of the scale-up policy adds capacity and never happens at a low
\* CPU utilization, a firing of the scale-down policy removes capacity and
\* happens only at a low one, and no datapoint makes one policy add capacity
\* while the other removes it.
C4_ScalingDirection ==
    /\ \A f \in fired :
          /\ f.policy = "scaleUpPolicy" => f.change > 0 /\ ~LowCpu(cpu)
          /\ f.policy = "scaleDownPolicy" => f.change < 0 /\ LowCpu(cpu)
    /\ ~ \E f, g \in fired : f.change > 0 /\ g.change < 0

\* C5: members are placed as the network architecture documents: the load
\* balancer only in Public subnets, backend instances and the database only
\* in Private-Backend subnets, Fargate tasks only in Private-Clients subnets.
C5_SubnetPlacement ==
    /\ \A s \in placement["alb"] : s.name = "Public"
    /\ \A s \in placement["backend"] : s.name = "Private-Backend"
    /\ \A s \in placement["database"] : s.name = "Private-Backend"
    /\ \A s \in placement["fargate"] : s.name = "Private-Clients"

\* C6: an admitted connection from the internet goes to the load balancer on
\* TCP 80 or 443; one admitted by a backend instance comes from the load
\* balancer on TCP 8080; one admitted by the database comes from a backend
\* instance on TCP 5432; the Fargate tasks admit nothing and the database
\* admits nothing from them.
C6_TrafficRestricted ==
    conn.accepted =>
        /\ conn.src = "internet" => conn.dst = "alb" /\ conn.port \in {80, 443}
        /\ conn.dst = "backend" => conn.src = "alb" /\ conn.port = 8080
        /\ conn.dst = "database" => conn.src = "backend" /\ conn.port = 5432
        /\ conn.dst # "fargate"
        /\ ~(conn.src = "fargate" /\ conn.dst = "database")

C6_Witness ==
    /\ conn.accepted
    /\ conn.src = "backend"
    /\ conn.dst = "database"
    /\ conn.port = 5432

\* C7: every component is spread over at least two availability zones, so the
\* loss of any one zone leaves each component a running member, and every
\* private subnet routes its egress to one of the declared NAT gateways.
C7_MultiAz ==
    /\ (phase = "deployed" /\ AllPlaced) =>
          \A c \in Components : Cardinality(ZonesOf(placement[c])) >= 2
    /\ failedAz # 0 =>
          \A c \in Components : \E s \in placement[c] : s.az # failedAz
    /\ Built =>
          \A s \in Subnets :
             s.subnetType = "PRIVATE_WITH_EGRESS" => NatRoute(s) \in NatGatewayAzs

SomeHealthy ==
    phase = "deployed" /\ \E i \in InstanceIds : instances[i] = "healthy"

\* C8: every backend instance that ran the user data eventually passes the
\* target group's health check; once an instance has booted the listener's
\* target group comes to hold a healthy target for good; and a request that
\* entered through the API gateway or the load balancer while a target is
\* healthy is eventually delivered to a backend instance.
C8_HealthyDelivery ==
    /\ \A i \in InstanceIds :
          (phase = "deployed" /\ instances[i] = "booted")
             ~> (phase = "deployed" /\ instances[i] = "healthy")
    /\ (phase = "deployed" /\ \E i \in InstanceIds : instances[i] = "booted")
          ~> []SomeHealthy
    /\ (request \in {"api", "alb"} /\ SomeHealthy) ~> (request = "delivered")

\* C9: the backend role, assumed only by ec2.amazonaws.com, is the only role
\* that may read the database secret; the Fargate task role, assumed only by
\* ecs-tasks.amazonaws.com, is granted access to the data bucket and nothing
\* else, and holds no write permission on the bucket.
C9_LeastPrivilege ==
    Built =>
        /\ Props("backendRole").assumedBy = "ec2.amazonaws.com"
        /\ [role |-> "backendRole", resource |-> "dbSecret", action |-> "read"] \in grants
        /\ \A g \in grants : g.resource = "dbSecret" => g.role = "backendRole"
        /\ Props("fargateTaskRole").assumedBy = "ecs-tasks.amazonaws.com"
        /\ \A g \in grants : g.role = "fargateTaskRole" => g.resource = "dataBucket"
        /\ \E g \in grants : g.role = "fargateTaskRole" /\ g.resource = "dataBucket"
        /\ \A g \in grants :
              g.role = "fargateTaskRole" /\ g.resource = "dataBucket" => g.action # "write"

\* C10: minCapacity <= desiredCapacity <= maxCapacity, the deployed group's
\* capacity stays within minCapacity..maxCapacity whatever policies fire, and
\* if the CPU utilization stays below 30 percent the capacity eventually
\* reaches minCapacity and stays there.
C10_ScalingBounds ==
    /\ [](Built =>
            /\ Props("autoScalingGroup").minCapacity <= Props("autoScalingGroup").desiredCapacity
            /\ Props("autoScalingGroup").desiredCapacity <= Props("autoScalingGroup").maxCapacity)
    /\ [](phase = "deployed" =>
            /\ capacity >= Props("autoScalingGroup").minCapacity
            /\ capacity <= Props("autoScalingGroup").maxCapacity)
    /\ (<>[](phase = "deployed" /\ cpu < 30))
          => <>[](phase = "deployed" /\ capacity = Props("autoScalingGroup").minCapacity)

====
